---- MODULE Spec2Model ----
(***************************************************************************)
(* Telemetry synchronisation and reconciliation engine of OSMElink_backend *)
(* (src/server.js): token lifecycle, paginated fetch, status derivation,   *)
(* the timer-driven sync cycle with its isSyncing guard, and the forwarder *)
(* ingest route; and of its file-backed variants: the ingest route with    *)
(* per-vehicle history (src/unnamed/part_001) and the unguarded sync cycle *)
(* (src/unnamed/part_002).                                                 *)
(***************************************************************************)
EXTENDS Integers, Sequences, FiniteSets, TLC

(* ------------------------------------------------------------------ *)
(* JavaScript values.  Every value is a record with the same fields so *)
(* that any two values can be compared.                                *)
(* ------------------------------------------------------------------ *)
Undef == [t |-> "undefined", n |-> 0, s |-> ""]

Null == [t |-> "null", n |-> 0, s |-> ""]

NaN == [t |-> "nan", n |-> 0, s |-> ""]

Num(k) == [t |-> "number", n |-> k, s |-> ""]

Str(x) == [t |-> "string", n |-> 0, s |-> x]

Bool(b) == [t |-> "boolean", n |-> IF b THEN 1 ELSE 0, s |-> ""]

\* a string holding a timestamp that Date parses to the instant ms
IsoDate(ms) == [t |-> "isodate", n |-> ms, s |-> ""]

\* a Date object for the instant ms
DateOf(ms) == [t |-> "date", n |-> ms, s |-> ""]

\* an opaque bearer token issued by the provider
Tok(k) == [t |-> "token", n |-> k, s |-> ""]

\* JS truthiness: undefined, null, NaN, 0, "" and false are falsy
Truthy(x) ==
  CASE x.t = "undefined" -> FALSE
    [] x.t = "null" -> FALSE
    [] x.t = "nan" -> FALSE
    [] x.t = "number" -> x.n # 0
    [] x.t = "string" -> x.s # ""
    [] x.t = "boolean" -> x.n = 1
    [] OTHER -> TRUE

\* a || b
Or(a, b) == IF Truthy(a) THEN a ELSE b

\* the numeric strings that occur in the model, as String -> Number reads them
StrToNum(s) ==
  CASE s = "" -> Num(0)
    [] s = "0" -> Num(0)
    [] s = "1" -> Num(1)
    [] s = "12" -> Num(12)
    [] OTHER -> NaN

\* Number(x)
Number(x) ==
  CASE x.t = "undefined" -> NaN
    [] x.t = "null" -> Num(0)
    [] x.t = "nan" -> NaN
    [] x.t = "number" -> x
    [] x.t = "boolean" -> Num(x.n)
    [] x.t = "string" -> StrToNum(x.s)
    [] x.t = "date" -> Num(x.n)
    [] OTHER -> NaN

\* x > 0 for the result of Number(x); NaN compares false
GtZero(x) == x.t = "number" /\ x.n > 0

\* new Date(x).getTime(): NaN for an Invalid Date
DateGetTime(x) ==
  CASE x.t = "undefined" -> NaN
    [] x.t = "null" -> Num(0)
    [] x.t = "number" -> x
    [] x.t = "boolean" -> Num(x.n)
    [] x.t = "isodate" -> Num(x.n)
    [] x.t = "date" -> Num(x.n)
    [] OTHER -> NaN

\* String(x).trim() for the identifier values of the model
TrimStr(s) ==
  CASE s = " H1 " -> "H1"
    [] s = " " -> ""
    [] OTHER -> s

NumToStr(k) ==
  CASE k = 0 -> "0"
    [] k = 1 -> "1"
    [] k = 12 -> "12"
    [] OTHER -> "n"

StringOf(x) ==
  CASE x.t = "string" -> x.s
    [] x.t = "number" -> NumToStr(x.n)
    [] x.t = "undefined" -> "undefined"
    [] x.t = "null" -> "null"
    [] x.t = "nan" -> "NaN"
    [] x.t = "boolean" -> (IF x.n = 1 THEN "true" ELSE "false")
    [] OTHER -> "object"

(* ------------------------------------------------------------------ *)
(* Program constants                                                   *)
(* ------------------------------------------------------------------ *)
pageSize == 1000

MsPerMin == 60000

NonCommMin == 1440

OfflineMin == 15

TimerMs == 60000

(* ------------------------------------------------------------------ *)
(* Bounds of the model                                                 *)
(* ------------------------------------------------------------------ *)
\* timer fires explored
MaxTicks == 3

\* tokens the provider issues
MaxTokens == 2

\* forwarder requests explored
MaxPush == 2

\* GET /test-tor-auth requests explored
MaxAuthTests == 1

\* pages a single fetchAllPages call of the pagination model may need
MaxPages == 3

\* records the provider of the pagination model may hold
MaxRecords == (MaxPages - 1) * pageSize + 1

\* part_001: forwarder requests explored
MaxBatches == 3

\* part_002: timer fires explored
MaxFileTicks == 2

\* clock value at start, in ms (two days after the epoch)
StartMs == 172800000

(* ------------------------------------------------------------------ *)
(* State                                                               *)
(* ------------------------------------------------------------------ *)
VARIABLES
  authToken,        \* let authToken (server.js:54)
  isSyncing,        \* let isSyncing (server.js:262)
  vehicle_rawdata,  \* table vehicle_rawdata: sequence of inserted rows
  vehicle_current,  \* table vehicle_current: set of rows
  vehicles,         \* table vehicles: set of rows
  now,              \* Date.now(), in ms
  torValid,         \* number of the token the provider accepts, 0 if none
  torIssued,        \* tokens issued by the provider so far
  torMeta,          \* records behind /EquipDetails/GetVehicleDetails
  torTele,          \* records behind /MachineData/GetLatestMachineData
  ticks,            \* timer fires so far
  sync,             \* the invocations of the timer callback in flight
  last,             \* the invocation of the timer callback that ended last
  skips,            \* timer fires dropped since a cycle last started
  pushes,           \* forwarder requests received so far
  push,             \* the forwarder request being handled
  authTests,        \* GET /test-tor-auth requests received so far
  authReq,          \* the GET /test-tor-auth request being handled
  sample,           \* status model: the telemetry sample
  derived,          \* status model: result of deriveVehicleStatus
  pgData,           \* pagination model: the provider's records
  pgCall,           \* pagination model: the fetchAllPages call
  vehicleStore,     \* let vehicleStore (part_001:28, part_002:24)
  batches,          \* part_001: POST /api/telemetry/bulk requests so far
  bulkRes,          \* part_001: the last response of POST /api/telemetry/bulk
  fticks,           \* part_002: timer fires so far
  fsync,            \* part_002: invocations of syncFleetFromTOR in flight
  flast,            \* part_002: the invocation that ended last
  alive             \* part_002: the process is running

progVars == <<authToken, isSyncing, vehicle_rawdata, vehicle_current, vehicles>>

envVars == <<now, torValid, torIssued, torMeta, torTele>>

procVars == <<ticks, sync, last, skips, pushes, push, authTests, authReq>>

statusVars == <<sample, derived>>

pageVars == <<pgData, pgCall>>

fileVars == <<vehicleStore, batches, bulkRes, fticks, fsync, flast, alive>>

vars == <<progVars, envVars, procVars, statusVars, pageVars, fileVars>>

(* ------------------------------------------------------------------ *)
(* Helpers (server.js:57-60)                                           *)
(* ------------------------------------------------------------------ *)
Present(x) == x.t # "undefined" /\ x.t # "null"

\* getVal(obj, [k1], fallback)
getVal1(obj, k1, fallback) ==
  IF k1 \in DOMAIN obj /\ Present(obj[k1]) THEN obj[k1] ELSE fallback

\* getVal(obj, [k1, k2], fallback)
getVal2(obj, k1, k2, fallback) ==
  IF k1 \in DOMAIN obj /\ Present(obj[k1]) THEN obj[k1]
  ELSE IF k2 \in DOMAIN obj /\ Present(obj[k2]) THEN obj[k2]
  ELSE fallback

(* ------------------------------------------------------------------ *)
(* Status derivation (server.js:116-137)                               *)
(* ------------------------------------------------------------------ *)
\* a provider telemetry record; the fields that are only copied into the
\* raw row (ModelNumber, TimetoCharge, DistancetoEmpty1, BattTemp,
\* BatteryVoltage, RSSI, Immobilization_status, ControllerTemperature)
\* are left out
Telemetry(hwid, hardwareId, dd, ms, ch, bci, sp, key) ==
  [HWID |-> hwid, hardwareId |-> hardwareId, ENTRYDATE |-> dd,
   DeviceDate |-> dd, MachineStatus |-> ms, isCharging |-> ch,
   BatteryChargingIndication1 |-> bci, Speed |-> sp, KeyOnSignal |-> key,
   Latitude |-> Num(1), Longitude |-> Num(1), StateofCharge |-> Num(12),
   Odometer |-> Num(12)]

\* the thresholds compared with >=
DiffMinGt_ge(diffMs, m) == diffMs >= m * MsPerMin

\* diffMin > m, with diffMin = diffMs / 60000
DiffMinGt(diffMs, m) == diffMs > m * MsPerMin

deriveVehicleStatus(v, nowMs) ==
  LET deviceTime == DateGetTime(v.DeviceDate)
      diffMs == nowMs - deviceTime.n
  IN  IF deviceTime.t = "nan" THEN "Offline"
      ELSE IF DiffMinGt(diffMs, NonCommMin) THEN "Non-Communicating"
      ELSE IF DiffMinGt(diffMs, OfflineMin) THEN "Offline"
      ELSE IF v.MachineStatus = Str("On") THEN "Online"
      ELSE IF v.isCharging = Bool(TRUE)
              \/ GtZero(Number(v.BatteryChargingIndication1)) THEN "Charging"
      ELSE IF GtZero(Number(v.Speed)) THEN "Running"
      ELSE IF v.KeyOnSignal = Str("1") THEN "Idle"
      ELSE "Off"

(* ------------------------------------------------------------------ *)
(* Pagination (server.js:62-95)                                        *)
(* ------------------------------------------------------------------ *)
Min(a, b) == IF a < b THEN a ELSE b

\* the page the provider serves for pageNo
PageOf(data, pageNo) ==
  SubSeq(data, (pageNo - 1) * pageSize + 1, Min(pageNo * pageSize, Len(data)))

Arr(list) == [isArray |-> TRUE, items |-> list]

NotArr == [isArray |-> FALSE, items |-> <<>>]

\* res.data of a page response: the payload sits at the top, under data,
\* under result, or somewhere the client does not look
Body(shape, list) ==
  [top |-> IF shape = "bare" THEN Arr(list) ELSE NotArr,
   data |-> IF shape = "data" THEN Arr(list) ELSE NotArr,
   result |-> IF shape = "result" THEN Arr(list) ELSE NotArr]

Shapes == {"bare", "data", "result", "other"}

\* server.js:75-81
ExtractList(body) ==
  IF body.top.isArray THEN body.top.items
  ELSE IF body.data.isArray THEN body.data.items
  ELSE IF body.result.isArray THEN body.result.items
  ELSE <<>>

\* server.js:63-73: the call has issued its first request, carrying the
\* token cached at that moment
FetchBegin(endpoint, token) ==
  [endpoint |-> endpoint, pageNo |-> 1, all |-> <<>>, reqToken |-> token,
   requests |-> 1, returned |-> FALSE, caught |-> FALSE, thrown |-> FALSE]

\* a full page taken for the last one
IsLastPage_le(list) == Len(list) <= pageSize

\* server.js:86
IsLastPage(list) == Len(list) < pageSize

\* the short-page test made before the page is appended
FetchOnOk_dropLast(f, body, token) ==
  LET list == ExtractList(body)
  IN  IF Len(list) = 0 \/ IsLastPage(list) THEN [f EXCEPT !.returned = TRUE]
      ELSE [f EXCEPT !.all = f.all \o list, !.pageNo = f.pageNo + 1,
                     !.reqToken = token, !.requests = f.requests + 1]

\* server.js:83-87, then the next request of the loop (69-73)
FetchOnOk(f, body, token) ==
  LET list == ExtractList(body)
  IN  IF Len(list) = 0 THEN [f EXCEPT !.returned = TRUE]
      ELSE IF IsLastPage(list)
        THEN [f EXCEPT !.all = f.all \o list, !.returned = TRUE]
        ELSE [f EXCEPT !.all = f.all \o list, !.pageNo = f.pageNo + 1,
                       !.reqToken = token, !.requests = f.requests + 1]

\* the catch block returns an empty list
FetchOnError_reset(f) ==
  [f EXCEPT !.returned = TRUE, !.caught = TRUE, !.all = <<>>]

\* server.js:88-91, 94
FetchOnError(f) == [f EXCEPT !.returned = TRUE, !.caught = TRUE]

NoCall == [FetchBegin("", Undef) EXCEPT !.requests = 0, !.returned = TRUE]

(* ------------------------------------------------------------------ *)
(* Token manager (server.js:98-114)                                    *)
(* ------------------------------------------------------------------ *)
\* res.data of a login response: the token sits at the top, under data,
\* under result, or nowhere
LoginBody(shape, tok) ==
  [token |-> IF shape = "top" THEN tok ELSE Undef,
   dataToken |-> IF shape = "data" THEN tok ELSE Undef,
   resultToken |-> IF shape = "result" THEN tok ELSE Undef]

LoginShapes == {"top", "data", "result", "none"}

\* server.js:106
ExtractToken(body) == Or(Or(body.token, body.dataToken), body.resultToken)

\* the catch block leaves the cached token alone
TokenOnError_keep(cached) == cached

\* server.js:109-112: the token cached after the request has thrown
TokenOnError(cached) == Null

\* the provider accepts the token carried by a request
Accepted(token, valid) == valid # 0 /\ token = Tok(valid)

(* ------------------------------------------------------------------ *)
(* Reconciliation (server.js:157-219)                                  *)
(* ------------------------------------------------------------------ *)
EmptyObj == <<>>

InvalidDate == [t |-> "invaliddate", n |-> 0, s |-> ""]

\* new Date(x)
NewDate(x) ==
  LET g == DateGetTime(x)
  IN  IF g.t = "nan" THEN InvalidDate ELSE DateOf(g.n)

\* the key not trimmed
HwidKey_raw(r) == StringOf(getVal2(r, "HWID", "hardwareId", Str("")))

\* server.js:159, 167
HwidKey(r) == TrimStr(StringOf(getVal2(r, "HWID", "hardwareId", Str(""))))

\* server.js:157-161, 170: the entry a Map built from metaList holds for
\* hwid (a later record of the same key replaces an earlier one), or {}
RECURSIVE MetaGet(_, _)
MetaGet(metaList, hwid) ==
  IF metaList = <<>> THEN EmptyObj
  ELSE LET m == metaList[Len(metaList)]
       IN  IF HwidKey(m) # "" /\ HwidKey(m) = hwid THEN m
           ELSE MetaGet(SubSeq(metaList, 1, Len(metaList) - 1), hwid)

\* server.js:172-183
VehicleData(v, meta, hwid, nowMs) ==
  [vehicleId |-> Str(hwid),
   displayDeviceId |-> getVal1(meta, "equipmentCode", Str(hwid)),
   registrationNo |-> getVal1(meta, "vehicleRegNo", Str("---")),
   status |-> Str(deriveVehicleStatus(v, nowMs)),
   lat |-> Number(getVal1(v, "Latitude", Num(0))),
   lng |-> Number(getVal1(v, "Longitude", Num(0))),
   speed |-> Number(getVal1(v, "Speed", Num(0))),
   battery |-> Number(getVal1(v, "StateofCharge", Num(0))),
   odometer |-> Number(getVal1(v, "Odometer", Num(0))),
   lastUpdate |-> NewDate(Or(v.DeviceDate, Num(nowMs)))]

\* server.js:185-205
RawRow(v) ==
  [HWID |-> v.HWID, ENTRYDATE |-> v.ENTRYDATE, DeviceDate |-> v.DeviceDate,
   Latitude |-> v.Latitude, Longitude |-> v.Longitude,
   StateofCharge |-> v.StateofCharge, KeyOnSignal |-> v.KeyOnSignal,
   BatteryChargingIndication1 |-> v.BatteryChargingIndication1,
   Odometer |-> v.Odometer, Speed |-> v.Speed,
   MachineStatus |-> v.MachineStatus]

\* server.js:166-168: the telemetry records that carry an identifier
RECURSIVE Usable(_)
Usable(telemetryList) ==
  IF telemetryList = <<>> THEN <<>>
  ELSE LET v == Head(telemetryList)
       IN  (IF HwidKey(v) = "" THEN <<>> ELSE <<v>>)
             \o Usable(Tail(telemetryList))

\* server.js:163-219
RawRows(telemetryList) ==
  LET u == Usable(telemetryList)
  IN  [i \in 1..Len(u) |-> RawRow(u[i])]

\* server.js:163-219
CurrentRows(metaList, telemetryList, nowMs) ==
  LET u == Usable(telemetryList)
  IN  [i \in 1..Len(u) |->
        VehicleData(u[i], MetaGet(metaList, HwidKey(u[i])), HwidKey(u[i]), nowMs)]

(* ------------------------------------------------------------------ *)
(* Store: INSERT ... ON DUPLICATE KEY UPDATE (server.js:236-251,       *)
(* 367-393).  A table is a set of rows; vehicleId is its key.          *)
(* ------------------------------------------------------------------ *)
\* the columns assigned by ON DUPLICATE KEY UPDATE
UpdateRow(old, new) ==
  [old EXCEPT !.displayDeviceId = new.displayDeviceId,
              !.registrationNo = new.registrationNo,
              !.status = new.status,
              !.lat = new.lat,
              !.lng = new.lng,
              !.speed = new.speed,
              !.battery = new.battery,
              !.odometer = new.odometer,
              !.lastUpdate = new.lastUpdate]

\* a plain INSERT
Upsert_insert(table, row) == table \cup {row}

Upsert(table, row) ==
  IF \E r \in table : r.vehicleId = row.vehicleId
  THEN {IF r.vehicleId = row.vehicleId THEN UpdateRow(r, row) ELSE r : r \in table}
  ELSE table \cup {row}

\* one statement with several rows applies them in order
RECURSIVE UpsertAll(_, _)
UpsertAll(table, rows) ==
  IF rows = <<>> THEN table
  ELSE UpsertAll(Upsert(table, Head(rows)), Tail(rows))

(* ------------------------------------------------------------------ *)
(* Forwarder ingest row (server.js:381-392)                            *)
(* ------------------------------------------------------------------ *)
\* obj?.[k]
Opt(obj, k) == IF k \in DOMAIN obj THEN obj[k] ELSE Undef

PushRow(v, nowMs) ==
  [vehicleId |-> v.vehicleId,
   displayDeviceId |-> Or(v.displayDeviceId, v.vehicleId),
   registrationNo |-> Or(v.registrationNo, Str("---")),
   status |-> Or(v.status, Str("Off")),
   lat |-> Or(Opt(v.location, "lat"), Num(0)),
   lng |-> Or(Opt(v.location, "lng"), Num(0)),
   speed |-> Or(Opt(v.metrics, "speed"), Num(0)),
   battery |-> Or(Opt(v.metrics, "battery"), Num(0)),
   odometer |-> Or(Opt(v.metrics, "odometer"), Num(0)),
   lastUpdate |-> DateOf(nowMs)]

\* the loop left at the first record without a vehicleId
NextVehicle_stop(list, i) ==
  IF i > Len(list) THEN 0
  ELSE IF Truthy(list[i].vehicleId) THEN i
  ELSE 0

\* server.js:364-365: index of the next record from i on that has a
\* vehicleId, 0 if there is none
RECURSIVE NextVehicle(_, _)
NextVehicle(list, i) ==
  IF i > Len(list) THEN 0
  ELSE IF Truthy(list[i].vehicleId) THEN i
  ELSE NextVehicle(list, i + 1)

(* ------------------------------------------------------------------ *)
(* Data of the model                                                   *)
(* ------------------------------------------------------------------ *)
Minutes(m) == m * MsPerMin

\* H1, 14 minutes old at start, reported On
tA == Telemetry(Str("H1"), Undef, IsoDate(StartMs - Minutes(14)), Str("On"),
                Undef, Undef, Num(12), Str("1"))

\* H1 again, fresh, moving
tA2 == Telemetry(Str("H1"), Undef, IsoDate(StartMs), Str(""),
                 Undef, Undef, Num(12), Str("0"))

\* H2 under the other identifier field, no timestamp
tB == Telemetry(Null, Str("H2"), Null, Str("Off"),
                Bool(TRUE), Undef, Num(0), Str("0"))

\* no identifier
tC == Telemetry(Undef, Str(" "), IsoDate(StartMs), Str("On"),
                Undef, Undef, Num(0), Str("0"))

TeleFeeds == {<<tC>>, <<tA, tB, tA2>>}

mA == [HWID |-> Str(" H1 "), hardwareId |-> Undef,
       equipmentCode |-> Str("EQ1"), vehicleRegNo |-> Str("REG1")]

\* a key that differs from H2 by case only
mLower == [HWID |-> Null, hardwareId |-> Str("h2"),
           equipmentCode |-> Str("EQ3"), vehicleRegNo |-> Str("REG3")]

\* a key of blanks
mNoKey == [HWID |-> Str(" "), hardwareId |-> Str("H2"),
           equipmentCode |-> Str("EQ0"), vehicleRegNo |-> Str("REG0")]

MetaFeeds == {<<mA, mLower, mNoKey>>}

\* the metadata of the provider after an operator has edited it
MetaEdited(metaList) ==
  [i \in DOMAIN metaList |->
     [metaList[i] EXCEPT !.equipmentCode = Str("EQ2"),
                         !.vehicleRegNo = Str("REG2")]]

pX == [vehicleId |-> Str("H1"), displayDeviceId |-> Str("EQ9"),
       registrationNo |-> Undef, status |-> Str("Running"),
       location |-> [lat |-> Num(12), lng |-> Num(0)], metrics |-> EmptyObj]

pY == [vehicleId |-> Str("H2"), displayDeviceId |-> Undef,
       registrationNo |-> Str("REG2"), status |-> Undef,
       location |-> EmptyObj, metrics |-> [speed |-> Num(12)]]

pNoId == [vehicleId |-> Undef, displayDeviceId |-> Str("EQ0"),
          registrationNo |-> Undef, status |-> Undef,
          location |-> EmptyObj, metrics |-> EmptyObj]

pEmptyId == [pNoId EXCEPT !.vehicleId = Str("")]

\* H1 with nothing but its identifier
pX2 == [vehicleId |-> Str("H1"), displayDeviceId |-> Undef,
        registrationNo |-> Undef, status |-> Undef,
        location |-> EmptyObj, metrics |-> EmptyObj]

PushBodies == {NotArr, Arr(<<pNoId, pX, pEmptyId, pY>>), Arr(<<pX2>>)}

(* ------------------------------------------------------------------ *)
(* Processes                                                           *)
(* ------------------------------------------------------------------ *)
\* an invocation of the timer callback (server.js:264-276) with the
\* locals of syncFleetFromTOR; logins, fetches and writes count the
\* requests it has issued and the statements it has completed, acquired
\* records how its login ended, rejected the token the provider refused
SyncNew ==
  [pc |-> "start", f |-> NoCall, metaList |-> <<>>, rawRows |-> <<>>,
   currentRows |-> <<>>, tokenRet |-> Undef, acquired |-> "",
   logins |-> 0, fetches |-> 0, writes |-> 0, rejected |-> Undef,
   outcome |-> ""]

\* the handler of POST /api/telemetry/bulk (server.js:357-402): list is
\* req.body, idx the record of the loop whose statement is awaited, failed
\* the record whose statement has thrown
PushIdle ==
  [pc |-> "idle", isArray |-> FALSE, list |-> <<>>, idx |-> 0, status |-> 0,
   count |-> 0, failed |-> 0]

AuthIdle == [pc |-> "idle", tokenRet |-> Undef, acquired |-> ""]

tables == <<vehicle_rawdata, vehicle_current, vehicles>>

provider == <<torValid, torIssued, torMeta, torTele>>

routes == <<pushes, push, authTests, authReq>>

harness == <<statusVars, pageVars, fileVars>>

Remove(seq, i) == SubSeq(seq, 1, i - 1) \o SubSeq(seq, i + 1, Len(seq))

(* ------------------------------------------------------------------ *)
(* Sync cycle (server.js:141-259) under the timer (server.js:262-276)  *)
(* ------------------------------------------------------------------ *)
\* the guard left out
Guarded_off(flag) == FALSE

\* server.js:265: the tick is dropped while a cycle is running
Guarded(flag) == flag

\* the flag cleared at the end of the try block only
Release_stuck(flag, outcome) == IF outcome = "completed" THEN FALSE ELSE flag

\* server.js:273-275: the flag after the callback has ended
Release(flag, outcome) == FALSE

\* server.js:143
TokenMissing(tok) == ~Truthy(tok)

\* server.js:151: the first page request of the metadata fetch is issued
StartMeta(pr, token) ==
  [pr EXCEPT !.pc = "fetch", !.f = FetchBegin("meta", token),
             !.fetches = pr.fetches + 1]

\* server.js:143-146, 256-258: syncFleetFromTOR returns
Finish(pr, outcome) ==
  [pr EXCEPT !.pc = "done", !.outcome = outcome, !.f = NoCall,
             !.metaList = <<>>, !.rawRows = <<>>, !.currentRows = <<>>]

\* server.js:141-151: the callback runs up to its first await
SyncStart(pr, token) ==
  IF TokenMissing(token)
  THEN [pr EXCEPT !.pc = "login", !.logins = pr.logins + 1]
  ELSE StartMeta(pr, token)

\* the early return left out
AfterLogin_goOn(pr, tok) == StartMeta(pr, tok)

\* server.js:143-151: getTorToken has returned tok
AfterLogin(pr, tok) ==
  IF TokenMissing(tok) THEN Finish(pr, "no-token") ELSE StartMeta(pr, tok)

\* the join made against the metadata the provider holds at that moment
AfterFetch_liveMeta(pr, f2, token, nowMs) ==
  IF ~f2.returned
  THEN [pr EXCEPT !.f = f2, !.fetches = pr.fetches + 1]
  ELSE IF f2.endpoint = "meta"
  THEN [pr EXCEPT !.metaList = f2.all, !.f = FetchBegin("tele", token),
                  !.fetches = pr.fetches + 1]
  ELSE LET raw == RawRows(f2.all)
           cur == CurrentRows(torMeta, f2.all, nowMs)
       IN  IF Len(raw) > 0
           THEN [pr EXCEPT !.pc = "insert", !.f = NoCall,
                           !.rawRows = raw, !.currentRows = cur]
           ELSE IF Len(cur) > 0
           THEN [pr EXCEPT !.pc = "upsert", !.f = NoCall,
                           !.currentRows = cur]
           ELSE Finish(pr, "completed")

\* server.js:151-235: a page response has been handled and left frame f2;
\* token is the cached token, nowMs the clock.  When the telemetry fetch
\* has returned, the lookup is built from metaList and the records are
\* joined (157-219) before the next await.
AfterFetch(pr, f2, token, nowMs) ==
  IF ~f2.returned
  THEN [pr EXCEPT !.f = f2, !.fetches = pr.fetches + 1]
  ELSE IF f2.endpoint = "meta"
  THEN [pr EXCEPT !.metaList = f2.all, !.f = FetchBegin("tele", token),
                  !.fetches = pr.fetches + 1]
  ELSE LET raw == RawRows(f2.all)
           cur == CurrentRows(pr.metaList, f2.all, nowMs)
       IN  IF Len(raw) > 0
           THEN [pr EXCEPT !.pc = "insert", !.f = NoCall,
                           !.rawRows = raw, !.currentRows = cur]
           ELSE IF Len(cur) > 0
           THEN [pr EXCEPT !.pc = "upsert", !.f = NoCall,
                           !.currentRows = cur]
           ELSE Finish(pr, "completed")

\* server.js:232-235: the history insert has succeeded
AfterInsert(pr) ==
  IF Len(pr.currentRows) > 0
  THEN [pr EXCEPT !.pc = "upsert", !.rawRows = <<>>, !.writes = pr.writes + 1]
  ELSE Finish([pr EXCEPT !.writes = pr.writes + 1], "completed")

\* the flag after a step of the callback that left it in state pr
FlagAfter(pr, flag) == IF pr.pc = "done" THEN Release(flag, pr.outcome) ELSE flag

\* invocation i has taken a step that left it in state pr
Settle(i, pr) ==
  /\ sync' = IF pr.pc = "done" THEN Remove(sync, i) ELSE [sync EXCEPT ![i] = pr]
  /\ last' = IF pr.pc = "done" THEN pr ELSE last
  /\ isSyncing' = FlagAfter(pr, isSyncing)
  /\ UNCHANGED <<ticks, skips>>

\* server.js:264-276: the timer fires
Tick ==
  /\ ticks < MaxTicks
  /\ ticks' = ticks + 1
  /\ now' = now + TimerMs
  /\ IF Guarded(isSyncing)
     THEN /\ last' = Finish(SyncNew, "skipped")
          /\ skips' = skips + 1
          /\ UNCHANGED <<sync, isSyncing>>
     ELSE /\ sync' = Append(sync, SyncStart(SyncNew, authToken))
          /\ isSyncing' = TRUE
          /\ skips' = 0
          /\ UNCHANGED last
  /\ UNCHANGED <<authToken, tables, provider, routes, harness>>

\* server.js:100-108: the login request of the cycle is answered 2xx
SyncLoginOk(i, shape) ==
  /\ sync[i].pc = "login"
  /\ shape # "none" => torIssued < MaxTokens
  /\ LET tok == ExtractToken(LoginBody(shape, Tok(torIssued + 1)))
     IN  /\ authToken' = tok
         /\ Settle(i, AfterLogin([sync[i] EXCEPT !.tokenRet = tok,
                             !.acquired = IF shape = "none" THEN "failed" ELSE "ok"],
                          tok))
  /\ torIssued' = IF shape = "none" THEN torIssued ELSE torIssued + 1
  /\ torValid' = IF shape = "none" THEN torValid ELSE torIssued + 1
  /\ UNCHANGED <<tables, now, torMeta, torTele, routes, harness>>

\* server.js:109-113: the login request of the cycle fails
SyncLoginErr(i) ==
  /\ sync[i].pc = "login"
  /\ authToken' = TokenOnError(authToken)
  /\ Settle(i, AfterLogin([sync[i] EXCEPT !.tokenRet = Null,
                                          !.acquired = "failed"], Null))
  /\ UNCHANGED <<tables, now, provider, routes, harness>>

EndpointData(endpoint) == IF endpoint = "meta" THEN torMeta ELSE torTele

\* server.js:69-87: a page request of the cycle is answered 2xx
SyncPageOk(i, shape) ==
  /\ sync[i].pc = "fetch"
  /\ Accepted(sync[i].f.reqToken, torValid)
  /\ \E f2 \in {FetchOnOk(sync[i].f,
                           Body(shape, PageOf(EndpointData(sync[i].f.endpoint),
                                              sync[i].f.pageNo)),
                           authToken)} :
       \E pr \in {AfterFetch(sync[i], f2, authToken, now)} : Settle(i, pr)
  /\ UNCHANGED <<authToken, tables, now, provider, routes, harness>>

\* server.js:88-91: a page request of the cycle fails; the provider
\* rejects a token it does not accept, any request may fail in transit
SyncPageErr(i, cls) ==
  /\ sync[i].pc = "fetch"
  /\ cls = "auth" => ~Accepted(sync[i].f.reqToken, torValid)
  /\ \E pr \in {AfterFetch([sync[i] EXCEPT !.rejected =
                                IF cls = "auth" THEN sync[i].f.reqToken
                                ELSE sync[i].rejected],
                            FetchOnError(sync[i].f), authToken, now)} :
       Settle(i, pr)
  /\ UNCHANGED <<authToken, tables, now, provider, routes, harness>>

\* server.js:222-235: the history insert succeeds
SyncInsertOk(i) ==
  /\ sync[i].pc = "insert"
  /\ vehicle_rawdata' = vehicle_rawdata \o sync[i].rawRows
  /\ Settle(i, AfterInsert(sync[i]))
  /\ UNCHANGED <<authToken, vehicle_current, vehicles, now, provider,
                 routes, harness>>

\* server.js:236-254: the current-state upsert succeeds
SyncUpsertOk(i) ==
  /\ sync[i].pc = "upsert"
  /\ vehicle_current' = UpsertAll(vehicle_current, sync[i].currentRows)
  /\ Settle(i, Finish([sync[i] EXCEPT !.writes = sync[i].writes + 1],
                      "completed"))
  /\ UNCHANGED <<authToken, vehicle_rawdata, vehicles, now, provider,
                 routes, harness>>

\* a failed history insert after which the cycle goes on to the upsert
SyncWriteErr_goOn(i) ==
  /\ sync[i].pc \in {"insert", "upsert"}
  /\ Settle(i, IF sync[i].pc = "insert"
               THEN [sync[i] EXCEPT !.pc = "upsert", !.rawRows = <<>>]
               ELSE Finish(sync[i], "failed"))
  /\ UNCHANGED <<authToken, tables, now, provider, routes, harness>>

\* server.js:256-258: a store statement of the cycle fails
SyncWriteErr(i) ==
  /\ sync[i].pc \in {"insert", "upsert"}
  /\ Settle(i, Finish(sync[i], "failed"))
  /\ UNCHANGED <<authToken, tables, now, provider, routes, harness>>

\* the provider stops accepting the token it issued
Expire ==
  /\ torValid # 0
  /\ torValid' = 0
  /\ UNCHANGED <<progVars, now, torIssued, torMeta, torTele, procVars, harness>>

\* the provider's metadata is edited
MetaChange ==
  /\ torMeta \in MetaFeeds
  /\ torMeta' = MetaEdited(torMeta)
  /\ UNCHANGED <<progVars, now, torValid, torIssued, torTele, procVars,
                 harness>>

(* ------------------------------------------------------------------ *)
(* GET /test-tor-auth (server.js:745-752)                              *)
(* ------------------------------------------------------------------ *)
AuthTestBegin ==
  /\ authTests < MaxAuthTests
  /\ authReq.pc # "login"
  /\ authTests' = authTests + 1
  /\ authReq' = [AuthIdle EXCEPT !.pc = "login"]
  /\ UNCHANGED <<progVars, envVars, ticks, sync, last, skips, pushes, push,
                 harness>>

AuthTestOk(shape) ==
  /\ authReq.pc = "login"
  /\ shape # "none" => torIssued < MaxTokens
  /\ LET tok == ExtractToken(LoginBody(shape, Tok(torIssued + 1)))
     IN  /\ authToken' = tok
         /\ authReq' = [pc |-> "done", tokenRet |-> tok,
                        acquired |-> IF shape = "none" THEN "failed" ELSE "ok"]
  /\ torIssued' = IF shape = "none" THEN torIssued ELSE torIssued + 1
  /\ torValid' = IF shape = "none" THEN torValid ELSE torIssued + 1
  /\ UNCHANGED <<isSyncing, tables, now, torMeta, torTele, ticks, sync, last,
                 skips, pushes, push, authTests, harness>>

AuthTestErr ==
  /\ authReq.pc = "login"
  /\ authToken' = TokenOnError(authToken)
  /\ authReq' = [pc |-> "done", tokenRet |-> Null, acquired |-> "failed"]
  /\ UNCHANGED <<isSyncing, tables, envVars, ticks, sync, last, skips,
                 pushes, push, authTests, harness>>

(* ------------------------------------------------------------------ *)
(* POST /api/telemetry/bulk (server.js:357-402)                        *)
(* ------------------------------------------------------------------ *)
\* every body taken for an array
NotArray_never(body) == FALSE

\* server.js:360, part_001:127: !Array.isArray(body)
NotArray(body) == ~body.isArray

\* server.js:359-367: the request arrives and runs up to its first await
PushBegin(body) ==
  /\ pushes < MaxPush
  /\ push.pc \in {"idle", "done"}
  /\ pushes' = pushes + 1
  /\ push' = IF NotArray(body)
             THEN [PushIdle EXCEPT !.pc = "done", !.status = 400,
                                   !.isArray = body.isArray]
             ELSE LET i == NextVehicle(body.items, 1)
                  IN  [PushIdle EXCEPT !.pc = IF i = 0 THEN "count" ELSE "exec",
                                       !.isArray = body.isArray,
                                       !.list = body.items, !.idx = i]
  /\ UNCHANGED <<progVars, envVars, ticks, sync, last, skips, authTests,
                 authReq, harness>>

\* server.js:367-396: the upsert of one record succeeds
PushExecOk ==
  /\ push.pc = "exec"
  /\ vehicles' = Upsert(vehicles, PushRow(push.list[push.idx], now))
  /\ LET i == NextVehicle(push.list, push.idx + 1)
     IN  push' = [push EXCEPT !.pc = IF i = 0 THEN "count" ELSE "exec",
                              !.idx = i]
  /\ UNCHANGED <<authToken, isSyncing, vehicle_rawdata, vehicle_current,
                 envVars, ticks, sync, last, skips, pushes, authTests,
                 authReq, harness>>

\* the number of records of the request
CountRows_batch(table, list) == Len(list)

\* server.js:396: SELECT COUNT(*) FROM vehicles, sent by the handler of
\* the request whose body is list
CountRows(table, list) == Cardinality(table)

\* server.js:396-397: the count query succeeds
PushCountOk ==
  /\ push.pc = "count"
  /\ push' = [push EXCEPT !.pc = "done", !.status = 200, !.idx = 0,
                          !.count = CountRows(vehicles, push.list)]
  /\ UNCHANGED <<progVars, envVars, ticks, sync, last, skips, pushes,
                 authTests, authReq, harness>>

\* server.js:398-401: a store statement of the request fails
PushDbErr ==
  /\ push.pc \in {"exec", "count"}
  /\ push' = [push EXCEPT !.pc = "done", !.status = 500, !.idx = 0,
                          !.failed = push.idx]
  /\ UNCHANGED <<progVars, envVars, ticks, sync, last, skips, pushes,
                 authTests, authReq, harness>>

(* ------------------------------------------------------------------ *)
(* GET /api/vehicles (server.js:420-485) for a caller whose role is     *)
(* neither customer nor dealer                                         *)
(* ------------------------------------------------------------------ *)
\* server.js:453-477
FormatRow(v) ==
  [id |-> v.vehicleId, vehicleId |-> v.vehicleId,
   displayDeviceId |-> v.displayDeviceId,
   registrationNo |-> v.registrationNo,
   status |-> v.status,
   active |-> v.status # Str("Offline"),
   lat |-> Or(Number(v.lat), Num(0)),
   lng |-> Or(Number(v.lng), Num(0)),
   speed |-> Or(Number(v.speed), Num(0)),
   batteryLevel |-> Or(Number(v.battery), Num(0)),
   totalKm |-> Or(Number(v.odometer), Num(0)),
   lastUpdate |-> v.lastUpdate]

\* server.js:424-480: the body of the response when the query reads table
GetVehicles(table) == {FormatRow(v) : v \in table}

(* ------------------------------------------------------------------ *)
(* File-backed ingest route with per-vehicle history                   *)
(* (src/unnamed/part_001:125-162).  A JavaScript object is a function   *)
(* from its keys; vehicleStore maps a vehicle id to its VehicleState,  *)
(* whose history is a sequence, newest first.                          *)
(* ------------------------------------------------------------------ *)
\* part_001:150
HistoryCap == 5000

\* { ...a, ...b }
Spread(a, b) ==
  [k \in DOMAIN a \cup DOMAIN b |-> IF k \in DOMAIN b THEN b[k] ELSE a[k]]

\* a === b for primitive values
StrictEq(a, b) == a.t # "nan" /\ a = b

\* part_001:135-136, 142: o.rawTor?.ENTRYDATE || o.rawTor?.DeviceDate
EntryDate(o) ==
  LET rawTor == Opt(o, "rawTor")
  IN  Or(Opt(rawTor, "ENTRYDATE"), Opt(rawTor, "DeviceDate"))

\* part_001:132: the state a vehicle not yet in the store starts from
NewVehicle == [history |-> <<>>, alerts |-> <<>>]

\* part_001:133: existing.history || []
HistoryOf(existing) ==
  IF "history" \in DOMAIN existing THEN existing.history ELSE <<>>

\* part_001:145-149
HistoryEntry(node, entryDate) ==
  [timestamp |-> entryDate, rawTor |-> Opt(node, "rawTor"),
   metrics |-> Opt(node, "metrics")]

\* the test for an entry of the same timestamp left out
HasEntry_never(history, entryDate) == FALSE

\* part_001:140-143
HasEntry(history, entryDate) ==
  \E i \in DOMAIN history : StrictEq(EntryDate(history[i]), entryDate)

\* the cap left out
Capped_off(history) == history

\* part_001:150: if (history.length > 5000) history.pop()
Capped(history) ==
  IF Len(history) > HistoryCap
  THEN SubSeq(history, 1, Len(history) - 1)
  ELSE history

\* part_001:135-151: the history after node has been handled
NextHistory(history, node) ==
  LET entryDate == EntryDate(node)
  IN  IF Truthy(entryDate) /\ ~HasEntry(history, entryDate)
      THEN Capped(<<HistoryEntry(node, entryDate)>> \o history)
      ELSE history

\* the key under which an object holds a value stored at id
KeyOf(id) == StringOf(id)

\* part_001:130-157: the body of batch.forEach for one node
MergeNode(store, node) ==
  IF ~Truthy(Opt(node, "id")) THEN store
  ELSE LET key == KeyOf(node.id)
           existing == IF key \in DOMAIN store THEN store[key] ELSE NewVehicle
           state == Spread(Spread(existing, node),
                           [history |-> NextHistory(HistoryOf(existing), node)])
       IN  [k \in DOMAIN store \cup {key} |->
              IF k = key THEN state ELSE store[k]]

\* part_001:129-158: batch.forEach
RECURSIVE MergeBatch(_, _)
MergeBatch(store, list) ==
  IF list = <<>> THEN store
  ELSE MergeBatch(MergeNode(store, Head(list)), Tail(list))

\* H1 with both timestamps
fA == [id |-> Str("H1"), status |-> Str("Running"),
       rawTor |-> [ENTRYDATE |-> IsoDate(StartMs),
                   DeviceDate |-> IsoDate(StartMs - 1)],
       metrics |-> [speed |-> Num(12)]]

\* H1 again: the same timestamp, read from DeviceDate; no status
fA2 == [id |-> Str("H1"),
        rawTor |-> [ENTRYDATE |-> Str(""), DeviceDate |-> IsoDate(StartMs)],
        metrics |-> [speed |-> Num(0)]]

\* H1 with a later timestamp, no metrics
fA3 == [id |-> Str("H1"), status |-> Str("Off"),
        rawTor |-> [ENTRYDATE |-> IsoDate(StartMs + 1)]]

\* H2 without telemetry
fB == [id |-> Str("H2"), status |-> Str("On")]

\* no id
fNoId == [status |-> Str("On"),
          rawTor |-> [ENTRYDATE |-> IsoDate(StartMs + 2)]]

FileBodies ==
  {NotArr, Arr(<<fA, fNoId, fA2>>), Arr(<<fA3, fB>>), Arr(<<fA2>>)}

EmptyStore == EmptyObj

\* the store after H1 has been pushed HistoryCap - 1 times, with the
\* timestamps 1 .. HistoryCap - 1 in this order
NearCapStore ==
  [k \in {"H1"} |->
     [id |-> Str("H1"), status |-> Str("Off"), registrationNo |-> Str("REG1"),
      alerts |-> <<>>,
      history |-> [i \in 1..(HistoryCap - 1) |->
                     [timestamp |-> IsoDate(HistoryCap - i),
                      rawTor |-> [ENTRYDATE |-> IsoDate(HistoryCap - i)],
                      metrics |-> Undef]]]]

NoResponse == [status |-> 0, isArray |-> FALSE, list |-> <<>>]

\* part_001:125-162: the handler has no await and runs to its response.
\* persistData (part_001:65-84) writes vehicleStore to the file and
\* catches its own errors.
BulkPush(body) ==
  /\ batches < MaxBatches
  /\ batches' = batches + 1
  /\ IF NotArray(body)
     THEN /\ bulkRes' = [status |-> 400, isArray |-> body.isArray,
                         list |-> <<>>]
          /\ UNCHANGED vehicleStore
     ELSE /\ vehicleStore' = MergeBatch(vehicleStore, body.items)
          /\ bulkRes' = [status |-> 200, isArray |-> body.isArray,
                         list |-> body.items]
  /\ UNCHANGED <<progVars, envVars, procVars, statusVars, pageVars,
                 fticks, fsync, flast, alive>>

(* ------------------------------------------------------------------ *)
(* File-backed sync cycle (src/unnamed/part_002:53-166): the timer      *)
(* calls syncFleetFromTOR with no guard, getTorToken catches its own   *)
(* errors, fetchAllPages does not.                                     *)
(* ------------------------------------------------------------------ *)
\* part_002:165
FileTimerMs == 30000

\* parseFloat(x)
ParseFloat(x) ==
  CASE x.t = "number" -> x
    [] x.t = "string" -> (IF x.s = "" THEN NaN ELSE StrToNum(x.s))
    [] OTHER -> NaN

\* part_002:90-91: res.data?.data || res.data?.result || []
FileExtractList(body) ==
  IF body.data.isArray THEN body.data.items
  ELSE IF body.result.isArray THEN body.result.items
  ELSE <<>>

\* part_002:90-96, then the next request of the loop (84-88)
FileFetchOnOk(f, body, token) ==
  LET list == FileExtractList(body)
  IN  IF Len(list) = 0 THEN [f EXCEPT !.returned = TRUE]
      ELSE IF Len(list) < pageSize
        THEN [f EXCEPT !.all = f.all \o list, !.returned = TRUE]
        ELSE [f EXCEPT !.all = f.all \o list, !.pageNo = f.pageNo + 1,
                       !.reqToken = token, !.requests = f.requests + 1]

\* part_002:128-150
FileVehicle(existing, v, meta, hwid, nowMs) ==
  Spread(existing,
    [id |-> Str(hwid),
     displayDeviceId |-> getVal1(meta, "equipmentCode", Str(hwid)),
     registrationNo |-> getVal1(meta, "vehicleRegNo", Str("---")),
     chassisNumber |-> getVal1(meta, "vehicleChassisNo", Str("---")),
     status |-> getVal1(v, "MachineStatus", Str("Off")),
     location |-> [lat |-> ParseFloat(getVal1(v, "Latitude", Num(0))),
                   lng |-> ParseFloat(getVal1(v, "Longitude", Num(0)))],
     metrics |->
       [batteryLevel |-> ParseFloat(getVal1(v, "StateofCharge", Num(0))),
        speed |-> ParseFloat(getVal1(v, "Speed", Num(0))),
        ignition |-> Bool(StringOf(getVal1(v, "KeyOnSignal", Null)) = "1"),
        totalKm |-> ParseFloat(getVal1(v, "Odometer", Num(0))),
        voltage |-> ParseFloat(getVal1(v, "BatteryVoltage", Num(0)))],
     rawTor |-> v,
     lastUpdate |-> IsoDate(nowMs)])

\* part_002:112-151: telemetry.forEach over the lookup built from metaList
RECURSIVE FileMerge(_, _, _, _)
FileMerge(store, metaList, telemetry, nowMs) ==
  IF telemetry = <<>> THEN store
  ELSE LET v == Head(telemetry)
           hwid == HwidKey(v)
           existing == IF hwid \in DOMAIN store THEN store[hwid]
                       ELSE [history |-> <<>>]
           state == FileVehicle(existing, v, MetaGet(metaList, hwid), hwid,
                                nowMs)
       IN  FileMerge(IF hwid = "" THEN store
                     ELSE [k \in DOMAIN store \cup {hwid} |->
                             IF k = hwid THEN state ELSE store[k]],
                     metaList, Tail(telemetry), nowMs)

\* an invocation of syncFleetFromTOR (part_002:101-162)
FileSyncNew ==
  [pc |-> "start", f |-> NoCall, metaList |-> <<>>, outcome |-> ""]

\* part_002:107: the first page request of the metadata fetch is issued
FileStartMeta(pr, token) ==
  [pr EXCEPT !.pc = "fetch", !.f = FetchBegin("meta", token)]

\* part_002:103: return
FileReturn(pr) ==
  [pr EXCEPT !.pc = "done", !.outcome = "returned", !.f = NoCall,
             !.metaList = <<>>]

\* part_002:159-160: metaList and telemetry are constants of the try
\* block and not in scope after it, so reading metaList throws a
\* ReferenceError out of the function
FileAfterTry(pr) ==
  [pr EXCEPT !.pc = "done", !.outcome = "raised", !.f = NoCall,
             !.metaList = <<>>]

\* part_002:103-110: getTorToken has returned tok
FileAfterLogin(pr, tok) ==
  IF ~Truthy(tok) THEN FileReturn(pr) ELSE FileStartMeta(pr, tok)

\* invocation i has taken a step that left it in state pr; when it has
\* thrown, its promise is rejected with no handler (part_002:165-166) and
\* the runtime either ends the process or goes on
FileSettle(i, pr) ==
  /\ fsync' = IF pr.pc = "done" THEN Remove(fsync, i)
              ELSE [fsync EXCEPT ![i] = pr]
  /\ flast' = IF pr.pc = "done" THEN pr ELSE flast
  /\ alive' \in IF pr.pc = "done" /\ pr.outcome = "raised"
                THEN BOOLEAN ELSE {alive}

\* part_002:165-166: the timer fires (or the module calls the function at
\* start-up) and the invocation runs up to its first await
FileTick ==
  /\ alive
  /\ fticks < MaxFileTicks
  /\ fticks' = fticks + 1
  /\ now' = now + FileTimerMs
  /\ fsync' = Append(fsync,
                     IF ~Truthy(authToken)
                     THEN [FileSyncNew EXCEPT !.pc = "login"]
                     ELSE FileStartMeta(FileSyncNew, authToken))
  /\ UNCHANGED <<progVars, provider, procVars, statusVars, pageVars,
                 vehicleStore, batches, bulkRes, flast, alive>>

\* part_002:57-63: the login request is answered 2xx
FileLoginOk(i, shape) ==
  /\ alive
  /\ fsync[i].pc = "login"
  /\ shape # "none" => torIssued < MaxTokens
  /\ LET tok == ExtractToken(LoginBody(shape, Tok(torIssued + 1)))
     IN  /\ authToken' = tok
         /\ FileSettle(i, FileAfterLogin(fsync[i], tok))
  /\ torIssued' = IF shape = "none" THEN torIssued ELSE torIssued + 1
  /\ torValid' = IF shape = "none" THEN torValid ELSE torIssued + 1
  /\ UNCHANGED <<isSyncing, tables, now, torMeta, torTele, procVars,
                 statusVars, pageVars, vehicleStore, batches, bulkRes,
                 fticks>>

\* part_002:64-67: the login request fails
FileLoginErr(i) ==
  /\ alive
  /\ fsync[i].pc = "login"
  /\ authToken' = TokenOnError(authToken)
  /\ FileSettle(i, FileAfterLogin(fsync[i], Null))
  /\ UNCHANGED <<isSyncing, tables, envVars, procVars, statusVars, pageVars,
                 vehicleStore, batches, bulkRes, fticks>>

\* part_002:84-154: a page request is answered 2xx.  After the last page
\* of the telemetry the records are merged into vehicleStore and
\* persistData (part_002:43-48) writes the file; saved tells whether the
\* write succeeds, and when it does not the catch block clears the token.
FilePageOk(i, shape, saved) ==
  /\ alive
  /\ fsync[i].pc = "fetch"
  /\ Accepted(fsync[i].f.reqToken, torValid)
  /\ \E f2 \in {FileFetchOnOk(fsync[i].f,
                     Body(shape, PageOf(EndpointData(fsync[i].f.endpoint),
                                        fsync[i].f.pageNo)),
                     authToken)} :
       IF ~f2.returned
       THEN /\ saved
            /\ FileSettle(i, [fsync[i] EXCEPT !.f = f2])
            /\ UNCHANGED <<authToken, vehicleStore>>
       ELSE IF f2.endpoint = "meta"
       THEN /\ saved
            /\ FileSettle(i, [fsync[i] EXCEPT !.metaList = f2.all,
                                 !.f = FetchBegin("tele", authToken)])
            /\ UNCHANGED <<authToken, vehicleStore>>
       ELSE /\ vehicleStore' = FileMerge(vehicleStore, fsync[i].metaList,
                                         f2.all, now)
            /\ authToken' = IF saved THEN authToken ELSE Null
            /\ FileSettle(i, FileAfterTry(fsync[i]))
  /\ UNCHANGED <<isSyncing, tables, envVars, procVars, statusVars, pageVars,
                 batches, bulkRes, fticks>>

\* part_002:84-88, 155-160: a page request fails; fetchAllPages throws
\* into the catch block of syncFleetFromTOR
FilePageErr(i) ==
  /\ alive
  /\ fsync[i].pc = "fetch"
  /\ authToken' = Null
  /\ FileSettle(i, FileAfterTry(fsync[i]))
  /\ UNCHANGED <<isSyncing, tables, envVars, procVars, statusVars, pageVars,
                 vehicleStore, batches, bulkRes, fticks>>

(* ------------------------------------------------------------------ *)
(* The server                                                          *)
(* ------------------------------------------------------------------ *)
NoSample == Telemetry(Undef, Undef, Undef, Undef, Undef, Undef, Undef, Undef)

HarnessIdle ==
  /\ sample = NoSample
  /\ derived = "none"
  /\ pgData = <<>>
  /\ pgCall = [f |-> NoCall, badShape |-> FALSE]

ServerIdle ==
  /\ isSyncing = FALSE
  /\ vehicle_rawdata = <<>>
  /\ vehicle_current = {}
  /\ vehicles = {}
  /\ now = StartMs
  /\ ticks = 0
  /\ sync = <<>>
  /\ last = [SyncNew EXCEPT !.pc = "none"]
  /\ skips = 0
  /\ pushes = 0
  /\ push = PushIdle
  /\ authTests = 0
  /\ authReq = AuthIdle

\* the file-backed variants are not running
FileIdle ==
  /\ vehicleStore = EmptyStore
  /\ batches = 0
  /\ bulkRes = NoResponse
  /\ fticks = 0
  /\ fsync = <<>>
  /\ flast = [FileSyncNew EXCEPT !.pc = "none"]
  /\ alive = TRUE

\* the process after start-up: no token cached (server.js:54)
Init ==
  /\ ServerIdle
  /\ authToken = Null
  /\ torValid = 0
  /\ torIssued = 0
  /\ torMeta \in MetaFeeds
  /\ torTele \in TeleFeeds
  /\ HarnessIdle
  /\ FileIdle

SyncStep(i) ==
  \/ \E shape \in LoginShapes : SyncLoginOk(i, shape)
  \/ SyncLoginErr(i)
  \/ \E shape \in Shapes : SyncPageOk(i, shape)
  \/ \E cls \in {"auth", "network"} : SyncPageErr(i, cls)
  \/ SyncInsertOk(i)
  \/ SyncUpsertOk(i)
  \/ SyncWriteErr(i)

\* the timer, the provider and the token routes
Next ==
  \/ Tick
  \/ \E i \in DOMAIN sync : SyncStep(i)
  \/ Expire
  \/ AuthTestBegin
  \/ \E shape \in LoginShapes : AuthTestOk(shape)
  \/ AuthTestErr

Spec == Init /\ [][Next]_vars

SyncAny == \E i \in DOMAIN sync : SyncStep(i)

\* every request the server has issued is answered, as the request
\* timeouts (server.js:72, 103) and the store client see to.  This is
\* WF_vars(SyncAny) written out: SyncAny is enabled exactly when an
\* invocation is in flight, since each of its awaits can end in an error.
FairSpec == Spec /\ ([]<>(sync = <<>>) \/ []<><<SyncAny>>_vars)

(* ------------------------------------------------------------------ *)
(* The store under both writers: the server holds a token the provider *)
(* accepts (acquired through GET /test-tor-auth), the timer runs sync   *)
(* cycles and the forwarder pushes batches.                            *)
(* ------------------------------------------------------------------ *)
InitStore ==
  /\ isSyncing = FALSE
  /\ vehicle_rawdata = <<>>
  /\ vehicle_current = {}
  /\ vehicles = {}
  /\ now = StartMs
  /\ ticks = 0
  /\ sync = <<>>
  /\ last = [SyncNew EXCEPT !.pc = "none"]
  /\ skips = 0
  /\ pushes = 0
  /\ push = PushIdle
  /\ authTests = 1
  /\ authReq = [pc |-> "done", tokenRet |-> Tok(1), acquired |-> "ok"]
  /\ authToken = Tok(1)
  /\ torValid = 1
  /\ torIssued = 1
  /\ torMeta \in MetaFeeds
  /\ torTele \in TeleFeeds
  /\ HarnessIdle
  /\ FileIdle

StoreSyncStep(i) ==
  \/ \E shape \in Shapes : SyncPageOk(i, shape)
  \/ \E cls \in {"network"} : SyncPageErr(i, cls)
  \/ SyncInsertOk(i)
  \/ SyncUpsertOk(i)
  \/ SyncWriteErr(i)

NextStore ==
  \/ Tick
  \/ \E i \in DOMAIN sync : StoreSyncStep(i)
  \/ \E body \in PushBodies : PushBegin(body)
  \/ PushExecOk
  \/ PushCountOk
  \/ PushDbErr

SpecStore == InitStore /\ [][NextStore]_vars

(* ------------------------------------------------------------------ *)
(* The sync cycle against a provider whose metadata is edited while    *)
(* cycles run; the server holds a token the provider accepts.          *)
(* ------------------------------------------------------------------ *)
NextJoin ==
  \/ Tick
  \/ \E i \in DOMAIN sync : StoreSyncStep(i)
  \/ MetaChange

SpecJoin == InitStore /\ [][NextJoin]_vars

(* ------------------------------------------------------------------ *)
(* The ingestion endpoint on its own, in both variants of the code:    *)
(* server.js upserts into the table vehicles, part_001 merges into     *)
(* vehicleStore and keeps a history per vehicle.                       *)
(* ------------------------------------------------------------------ *)
InitIngest ==
  /\ ServerIdle
  /\ authToken = Null
  /\ torValid = 0
  /\ torIssued = 0
  /\ torMeta = <<>>
  /\ torTele = <<>>
  /\ HarnessIdle
  /\ vehicleStore \in {EmptyStore, NearCapStore}
  /\ batches = 0
  /\ bulkRes = NoResponse
  /\ fticks = 0
  /\ fsync = <<>>
  /\ flast = [FileSyncNew EXCEPT !.pc = "none"]
  /\ alive = TRUE

NextIngest ==
  \/ \E body \in PushBodies : PushBegin(body)
  \/ PushExecOk
  \/ PushCountOk
  \/ PushDbErr
  \/ \E body \in FileBodies : BulkPush(body)

SpecIngest == InitIngest /\ [][NextIngest]_vars

(* ------------------------------------------------------------------ *)
(* The file-backed sync cycle under its timer (part_002)               *)
(* ------------------------------------------------------------------ *)
InitFileSync ==
  /\ ServerIdle
  /\ authToken = Null
  /\ torValid = 0
  /\ torIssued = 0
  /\ torMeta \in MetaFeeds
  /\ torTele \in TeleFeeds
  /\ HarnessIdle
  /\ FileIdle

FileSyncStep(i) ==
  \/ \E shape \in LoginShapes : FileLoginOk(i, shape)
  \/ FileLoginErr(i)
  \/ \E shape \in Shapes, saved \in BOOLEAN : FilePageOk(i, shape, saved)
  \/ FilePageErr(i)

NextFileSync ==
  \/ FileTick
  \/ \E i \in DOMAIN fsync : FileSyncStep(i)

SpecFileSync == InitFileSync /\ [][NextFileSync]_vars

(* ------------------------------------------------------------------ *)
(* Status derivation on its own: deriveVehicleStatus applied to one    *)
(* telemetry sample                                                    *)
(* ------------------------------------------------------------------ *)
\* ages of the sample, in ms
SampleAges ==
  {0 - Minutes(1), 0, Minutes(OfflineMin), Minutes(OfflineMin) + 1,
   Minutes(20), Minutes(NonCommMin), Minutes(NonCommMin) + 1}

SampleDates ==
  {Undef, Null, Str(""), Str("garbage")}
    \cup {IsoDate(StartMs - a) : a \in SampleAges}

Samples ==
  {Telemetry(Str("H1"), Undef, dd, ms, ch, bci, sp, key) :
     dd \in SampleDates,
     ms \in {Undef, Str("On"), Str("Off"), Str("")},
     ch \in {Undef, Bool(TRUE), Bool(FALSE)},
     bci \in {Undef, Num(0), Num(1), Str("1")},
     sp \in {Undef, Num(0), Num(12), Str("12")},
     key \in {Undef, Str("1"), Str("0"), Num(1)}}

InitStatus ==
  /\ ServerIdle
  /\ authToken = Null
  /\ torValid = 0
  /\ torIssued = 0
  /\ torMeta = <<>>
  /\ torTele = <<>>
  /\ pgData = <<>>
  /\ pgCall = [f |-> NoCall, badShape |-> FALSE]
  /\ sample \in Samples
  /\ derived = "none"
  /\ FileIdle

Derive ==
  /\ derived = "none"
  /\ derived' = deriveVehicleStatus(sample, now)
  /\ UNCHANGED <<progVars, envVars, procVars, sample, pageVars, fileVars>>

NextStatus == Derive

SpecStatus == InitStatus /\ [][NextStatus]_vars

(* ------------------------------------------------------------------ *)
(* Pagination on its own: one fetchAllPages call against a provider    *)
(* that holds N records                                                *)
(* ------------------------------------------------------------------ *)
InitPages ==
  /\ ServerIdle
  /\ authToken = Tok(1)
  /\ torValid = 1
  /\ torIssued = 1
  /\ torMeta = <<>>
  /\ torTele = <<>>
  /\ sample = NoSample
  /\ derived = "none"
  /\ pgData \in {[k \in 1..n |-> k] : n \in 0..MaxRecords}
  /\ pgCall = [f |-> FetchBegin("pages", authToken), badShape |-> FALSE]
  /\ FileIdle

\* the page request in flight is answered 2xx
PageOk(shape) ==
  /\ ~pgCall.f.returned
  /\ pgCall' = [f |-> FetchOnOk(pgCall.f,
                                Body(shape, PageOf(pgData, pgCall.f.pageNo)),
                                authToken),
                badShape |-> shape = "other"]
  /\ UNCHANGED <<progVars, envVars, procVars, statusVars, pgData, fileVars>>

\* the page request in flight fails or times out
PageErr ==
  /\ ~pgCall.f.returned
  /\ pgCall' = [pgCall EXCEPT !.f = FetchOnError(pgCall.f)]
  /\ UNCHANGED <<progVars, envVars, procVars, statusVars, pgData, fileVars>>

NextPages ==
  \/ \E shape \in Shapes : PageOk(shape)
  \/ PageErr

SpecPages == InitPages /\ [][NextPages]_vars

\* the request timeout (server.js:72) ends every page request
FairSpecPages == SpecPages /\ WF_vars(NextPages)

(* ================================================================== *)
(* Properties                                                          *)
(* ================================================================== *)
Range(seq) == {seq[i] : i \in DOMAIN seq}

\* the invocations of the timer callback the state knows of
Known == Range(sync) \cup {last}

\* C1: at most one sync cycle is in flight, and a timer fire that finds
\* isSyncing set issues no login or page request, starts nothing and
\* leaves the token, the flag, the store and the provider as they were,
\* however many fires arrive while the cycle waits for I/O.
C1_OneCycleInFlight ==
  /\ [](Len(sync) <= 1 /\ (Len(sync) = 1 => isSyncing))
  /\ [][(ticks' # ticks /\ isSyncing) =>
          /\ sync' = sync
          /\ isSyncing' = isSyncing
          /\ authToken' = authToken
          /\ UNCHANGED <<tables, provider>>]_vars

\* two fires have been dropped while one cycle waits for a page
C1_Witness ==
  /\ Len(sync) = 1
  /\ sync[1].pc = "fetch"
  /\ skips >= 2

\* C2: a cycle that has set isSyncing clears it again, however it ends
\* (completed, no token, failed store statement), so the flag is never
\* left set without a cycle in flight and a later fire starts a new cycle.
C2_FlagCleared ==
  /\ isSyncing ~> ~isSyncing
  /\ [](Len(sync) = 0 => ~isSyncing)

\* a cycle runs after the previous one has failed
C2_Witness ==
  /\ last.outcome = "failed"
  /\ Len(sync) = 1
  /\ isSyncing

\* C3: once a page request has been refused for its token, that token is
\* no longer the cached one.
C3_RejectedTokenDropped ==
  \A pr \in Known : Truthy(pr.rejected) => authToken # pr.rejected

\* a login of invocation i ends in this step without a token
LoginFailsIn(i) ==
  /\ sync[i].pc = "login"
  /\ \/ Len(sync') < Len(sync) /\ last'.acquired = "failed"
     \/ Len(sync') = Len(sync) /\ sync'[i].acquired = "failed"

\* C4: when a login fails (request error or a body without a token),
\* getTorToken returns a falsy value and the cached token is falsy after
\* it, whatever was cached before.
C4_FailedLoginClearsToken ==
  [][/\ (authReq.pc = "login" /\ authReq'.acquired = "failed") =>
          (~Truthy(authToken') /\ ~Truthy(authReq'.tokenRet))
     /\ (\E i \in DOMAIN sync : LoginFailsIn(i)) =>
          (~Truthy(authToken') /\ ~Truthy(last'.tokenRet))]_vars

\* GET /test-tor-auth has failed after a token had been issued and cached
C4_Witness ==
  /\ authReq.pc = "done"
  /\ authReq.acquired = "failed"
  /\ torIssued >= 1
  /\ ~Truthy(authToken)

\* C5: a cycle whose login fails ends there: it has issued one login
\* request and no page request, has written nothing, and the step that
\* ends it leaves the tables unchanged.
C5_NoFetchAfterFailedLogin ==
  /\ [](\A pr \in Known : pr.acquired = "failed" =>
          /\ pr.pc = "done"
          /\ pr.outcome = "no-token"
          /\ pr.logins = 1
          /\ pr.fetches = 0
          /\ pr.writes = 0)
  /\ [][(\E i \in DOMAIN sync : LoginFailsIn(i)) => UNCHANGED tables]_vars

C5_Witness ==
  /\ last.acquired = "failed"
  /\ last.outcome = "no-token"
  /\ ~isSyncing

\* the fetchAllPages call has returned after 2xx responses that carried
\* their page where the client reads it
CleanReturn ==
  /\ pgCall.f.returned
  /\ ~pgCall.f.caught
  /\ ~pgCall.badShape

Ceil(n, d) == (n + d - 1) \div d

\* C6 as stated: N records in pages of P take ceil(N/P) requests.
C6_CeilRequests ==
  CleanReturn => pgCall.f.requests = Ceil(Len(pgData), pageSize)

\* C6: N records in pages of P take floor(N/P) + 1 requests.
C6_RequestCount ==
  CleanReturn => pgCall.f.requests = (Len(pgData) \div pageSize) + 1

\* two full pages, then an empty third one
C6_Witness ==
  /\ CleanReturn
  /\ Len(pgData) = 2 * pageSize
  /\ pgCall.f.requests = 3

\* C7: without request errors fetchAllPages returns, and what it returns
\* is the provider's records, each once and in order; the last page it
\* asked for is the first one shorter than P.
C7_AllRecordsInOrder ==
  /\ <>(pgCall.f.returned)
  /\ [](CleanReturn =>
          /\ pgCall.f.all = pgData
          /\ pgCall.f.requests = pgCall.f.pageNo
          /\ Len(PageOf(pgData, pgCall.f.pageNo)) < pageSize
          /\ \A k \in 1..(pgCall.f.pageNo - 1) :
                Len(PageOf(pgData, k)) = pageSize)

\* a full page and a page of one record
C7_Witness ==
  /\ CleanReturn
  /\ Len(pgData) = pageSize + 1
  /\ Len(pgCall.f.all) = pageSize + 1
  /\ pgCall.f.pageNo = 2

\* C8: when the request for page k fails, fetchAllPages returns normally
\* with the records of pages 1..k-1, having asked once for each of the
\* pages 1..k and for nothing else.
C8_ErrorKeepsAccumulated ==
  (pgCall.f.returned /\ pgCall.f.caught) =>
     /\ ~pgCall.f.thrown
     /\ pgCall.f.all = SubSeq(pgData, 1, (pgCall.f.pageNo - 1) * pageSize)
     /\ pgCall.f.requests = pgCall.f.pageNo

\* the request for page 2 has failed
C8_Witness ==
  /\ pgCall.f.returned
  /\ pgCall.f.caught
  /\ pgCall.f.pageNo = 2
  /\ Len(pgCall.f.all) = pageSize

\* the status of the first matching rule, in the order of the list: the
\* timestamp is missing (undefined or null) or does not parse, the age
\* exceeds 1440 min, the age exceeds 15 min, MachineStatus is "On", the
\* charging flag is set or the charging current positive, the speed is
\* positive, KeyOnSignal is "1", none of these
RuleStatus(v, nowMs) ==
  LET t == DateGetTime(v.DeviceDate)
      age == nowMs - t.n
  IN  IF ~Present(v.DeviceDate) \/ t.t = "nan" THEN "Offline"
      ELSE IF age > NonCommMin * MsPerMin THEN "Non-Communicating"
      ELSE IF age > OfflineMin * MsPerMin THEN "Offline"
      ELSE IF v.MachineStatus = Str("On") THEN "Online"
      ELSE IF v.isCharging = Bool(TRUE)
              \/ GtZero(Number(v.BatteryChargingIndication1)) THEN "Charging"
      ELSE IF GtZero(Number(v.Speed)) THEN "Running"
      ELSE IF v.KeyOnSignal = Str("1") THEN "Idle"
      ELSE "Off"

\* C9: the derived status is the status of the first matching rule.
C9_FirstMatchingRule ==
  derived # "none" => derived = RuleStatus(sample, now)

UniqueKey(table) ==
  \A r1, r2 \in table : r1.vehicleId = r2.vehicleId => r1 = r2

\* the rows about to be written or already written
CandidateRows ==
  vehicle_current \cup vehicles
    \cup UNION {Range(pr.currentRows) : pr \in Range(sync)}
    \cup {PushRow(push.list[k], now) :
            k \in {j \in DOMAIN push.list : Truthy(push.list[j].vehicleId)}}

\* applying row to table twice is applying it once, and leaves the one
\* entry of its key equal to row
Idempotent(table, row) ==
  /\ Upsert(Upsert(table, row), row) = Upsert(table, row)
  /\ {r \in Upsert(table, row) : r.vehicleId = row.vehicleId} = {row}

\* C10: each table of current state holds one row per vehicleId, and
\* upserting a row a second time changes nothing.
C10_OneRowPerVehicle ==
  /\ UniqueKey(vehicle_current)
  /\ UniqueKey(vehicles)
  /\ \A row \in CandidateRows :
        Idempotent(vehicle_current, row) /\ Idempotent(vehicles, row)

\* two cycles' worth of rows and two pushes have gone into the tables
C10_Witness ==
  /\ Cardinality(vehicle_current) = 2
  /\ last.outcome = "completed"
  /\ pushes = 2
  /\ push.status = 200
  /\ Cardinality(vehicles) = 2

\* the history the store holds for the vehicle under key id
StoredHistory(store, id) ==
  IF id \in DOMAIN store THEN HistoryOf(store[id]) ELSE <<>>

Timestamps(history) == {history[i].timestamp : i \in DOMAIN history}

\* the entries of history that carry the timestamp ts
EntriesAt(history, ts) == {i \in DOMAIN history : history[i].timestamp = ts}

\* C11: no history of the file-backed store holds two entries of the same
\* timestamp, and after a batch has been merged every record of it that
\* has an id and a timestamp has exactly one entry of that timestamp in
\* the history of its vehicle, however often the timestamp was pushed.
C11_NoDuplicateTimestamp ==
  /\ \A id \in DOMAIN vehicleStore :
        Cardinality(Timestamps(HistoryOf(vehicleStore[id])))
          = Len(HistoryOf(vehicleStore[id]))
  /\ bulkRes.status = 200 =>
        \A j \in DOMAIN bulkRes.list :
          LET node == bulkRes.list[j]
          IN  (Truthy(Opt(node, "id")) /\ Truthy(EntryDate(node))) =>
                Cardinality(EntriesAt(
                  StoredHistory(vehicleStore, KeyOf(node.id)),
                  EntryDate(node))) = 1

\* one timestamp pushed for H1 in two records of a batch and again in a
\* later batch: one entry
C11_Witness ==
  /\ batches = 2
  /\ bulkRes.list = <<fA2>>
  /\ "H1" \in DOMAIN vehicleStore
  /\ Len(HistoryOf(vehicleStore["H1"])) = 1
  /\ vehicleStore["H1"].history[1].metrics = fA.metrics

C13_NonArrayRejected ==
  /\ []((push.pc # "idle" /\ ~push.isArray) =>
          (push.pc = "done" /\ push.status = 400))
  /\ []((bulkRes.status # 0 /\ ~bulkRes.isArray) => bulkRes.status = 400)
  /\ [][(pushes' # pushes /\ ~push'.isArray) => UNCHANGED tables]_vars
  /\ [][(batches' # batches /\ ~bulkRes'.isArray) =>
          UNCHANGED vehicleStore]_vars

\* both handlers have rejected a body while their stores held vehicles
C13_Witness ==
  /\ push.pc = "done"
  /\ push.status = 400
  /\ Cardinality(vehicles) = 2
  /\ bulkRes.status = 400
  /\ DOMAIN vehicleStore = {"H1", "H2"}

HasId(node) == Truthy(Opt(node, "id"))

\* C14: a record without an identifier creates and changes nothing and
\* does not stop the batch.  In server.js a batch answered 200 has left
\* in vehicles the row of each of its records that has a vehicleId, and
\* the table changes only by the upsert of such a record; in part_001 a
\* batch has the effect of the same batch without its records that have
\* no id.
C14_SkippedRecordOnly ==
  /\ []((push.pc = "done" /\ push.status = 200) =>
          \A j \in DOMAIN push.list :
            Truthy(push.list[j].vehicleId) =>
              PushRow(push.list[j], now) \in vehicles)
  /\ [](\A r \in vehicles : Truthy(r.vehicleId))
  /\ [][vehicles' # vehicles =>
          /\ push.pc = "exec"
          /\ Truthy(push.list[push.idx].vehicleId)
          /\ vehicles' = Upsert(vehicles,
                                PushRow(push.list[push.idx], now))]_vars
  /\ [][(batches' # batches /\ bulkRes'.status = 200) =>
          vehicleStore' = MergeBatch(vehicleStore,
                                     SelectSeq(bulkRes'.list, HasId))]_vars

\* both handlers have taken a batch with records without an identifier
\* before and between records that have one
C14_Witness ==
  /\ push.pc = "done"
  /\ push.status = 200
  /\ push.list = <<pNoId, pX, pEmptyId, pY>>
  /\ {r.vehicleId : r \in vehicles} = {Str("H1"), Str("H2")}
  /\ bulkRes.list = <<fA, fNoId, fA2>>
  /\ DOMAIN vehicleStore = {"H1"}
  /\ vehicleStore["H1"].status = Str("Running")
  /\ vehicleStore["H1"].metrics = fA2.metrics

\* the fields of a pushed record that go into the columns of its row
Incoming(v) ==
  [displayDeviceId |-> v.displayDeviceId,
   registrationNo |-> v.registrationNo,
   status |-> v.status,
   lat |-> Opt(v.location, "lat"),
   lng |-> Opt(v.location, "lng"),
   speed |-> Opt(v.metrics, "speed"),
   battery |-> Opt(v.metrics, "battery"),
   odometer |-> Opt(v.metrics, "odometer")]

RowsOf(table, id) == {r \in table : r.vehicleId = id}

\* C15: when the forwarder's upsert meets a row of the same vehicle, each
\* column takes the value of the incoming record where the record has
\* the field and keeps its stored value where the record has not.
C15_ShallowMerge ==
  [][(push.pc = "exec" /\ vehicles' # vehicles) =>
       LET v == push.list[push.idx]
       IN  \A old \in RowsOf(vehicles, v.vehicleId) :
             \A new \in RowsOf(vehicles', v.vehicleId) :
               \A c \in DOMAIN Incoming(v) :
                 new[c] = IF Present(Incoming(v)[c])
                          THEN Incoming(v)[c] ELSE old[c]]_vars

\* C16: when the statement of one record of a batch has failed, every
\* other record of the batch that has a vehicleId has its row in the
\* table.
C16_WriteFailureContained ==
  (push.pc = "done" /\ push.failed > 0) =>
     \A j \in DOMAIN push.list :
       (j # push.failed /\ Truthy(push.list[j].vehicleId)) =>
          RowsOf(vehicles, push.list[j].vehicleId) # {}

\* C17: once a push batch has been answered 200, the fleet read returns
\* a vehicle for each of its records that has a vehicleId.
C17_PushVisibleToFleetRead ==
  (push.pc = "done" /\ push.status = 200) =>
     \A j \in DOMAIN push.list :
       Truthy(push.list[j].vehicleId) =>
          RowsOf(GetVehicles(vehicle_current), push.list[j].vehicleId) # {}

\* the rows of a statement that are not followed by a row of the same key
LastRows(rows) ==
  {rows[j] : j \in {k \in DOMAIN rows :
                      \A m \in (k + 1)..Len(rows) :
                        rows[m].vehicleId # rows[k].vehicleId}}

\* C18: after each write of either writer the state of the vehicle, as
\* the fleet read gives it, is the record just written, whole.
C18_LastWriteWins ==
  [][/\ (\E i \in DOMAIN sync : sync[i].pc = "upsert")
         /\ vehicle_current' # vehicle_current =>
           \A i \in DOMAIN sync :
             \A row \in LastRows(sync[i].currentRows) :
               RowsOf(GetVehicles(vehicle_current'), row.vehicleId)
                 = {FormatRow(row)}
     /\ (push.pc = "exec" /\ push'.pc # "done") =>
           LET row == PushRow(push.list[push.idx], now)
           IN  RowsOf(GetVehicles(vehicle_current'), row.vehicleId)
                 = {FormatRow(row)}]_vars

\* the invocation has left the metadata fetch behind
PastMeta(pr) ==
  \/ pr.pc \in {"insert", "upsert"}
  \/ pr.pc = "fetch" /\ pr.f.endpoint = "tele"

\* the display fields of row are those of the entry metaList has for it
JoinedWith(row, metaList) ==
  LET meta == MetaGet(metaList, row.vehicleId.s)
  IN  /\ row.displayDeviceId = getVal1(meta, "equipmentCode", row.vehicleId)
      /\ row.registrationNo = getVal1(meta, "vehicleRegNo", Str("---"))

\* C19: no row is joined while the metadata fetch of the cycle is still
\* running; the list the metadata fetch returned stays the cycle's
\* metaList from then on, whatever the provider does to its metadata;
\* and every row of the cycle is joined with that list.
C19_JoinUsesMetaSnapshot ==
  /\ [](\A pr \in Range(sync) :
          /\ ~PastMeta(pr) => (pr.currentRows = <<>> /\ pr.rawRows = <<>>)
          /\ \A k \in DOMAIN pr.currentRows :
                JoinedWith(pr.currentRows[k], pr.metaList))
  /\ [][\A i \in DOMAIN sync :
          (Len(sync') = Len(sync) /\ PastMeta(sync'[i])) =>
             sync'[i].metaList =
               IF PastMeta(sync[i]) THEN sync[i].metaList
               ELSE IF Len(sync'[i].metaList) > Len(sync[i].f.all)
               THEN sync[i].f.all \o PageOf(torMeta, sync[i].f.pageNo)
               ELSE sync[i].f.all]_vars

\* the rows of a cycle carry the metadata it fetched, which the provider
\* has replaced since
C19_Witness ==
  /\ Len(sync) = 1
  /\ sync[1].pc = "upsert"
  /\ sync[1].metaList \in MetaFeeds
  /\ torMeta = MetaEdited(sync[1].metaList)
  /\ Len(sync[1].currentRows) = 3
  /\ sync[1].currentRows[1].displayDeviceId = Str("EQ1")

\* C20: no invocation of the cycle function ends by throwing, whichever
\* of its requests or writes has failed.
C20_NoErrorEscapes ==
  flast.pc = "done" => flast.outcome # "raised"

\* the vehicle identifiers a table holds
IdsOf(table) == {r.vehicleId : r \in table}

\* the identifiers of the records of list that have one
BatchIds(list) ==
  {list[j].vehicleId : j \in {k \in DOMAIN list : Truthy(list[k].vehicleId)}}

\* C21: the count in the response of a push answered 200 is the number
\* of distinct vehicle identifiers in the table the push writes, all
\* identifiers of the batch among them.
C21_CountAfterBatch ==
  (push.pc = "done" /\ push.status = 200) =>
     /\ push.count = Cardinality(IdsOf(vehicles))
     /\ BatchIds(push.list) \subseteq IdsOf(vehicles)

\* a batch of one record for a vehicle already stored, in a table of
\* two vehicles: the response counts two
C21_Witness ==
  /\ push.pc = "done"
  /\ push.status = 200
  /\ push.list = <<pX2>>
  /\ push.count = 2

\* the entry/device timestamp of a history row
RowTimestamp(r) == Or(r.ENTRYDATE, r.DeviceDate)

\* C22: the history table holds no two rows of one vehicle with the same
\* entry/device timestamp.
C22_SyncHistoryDeduplicated ==
  \A i, j \in DOMAIN vehicle_rawdata :
    (i # j /\ vehicle_rawdata[i].HWID = vehicle_rawdata[j].HWID) =>
       RowTimestamp(vehicle_rawdata[i]) # RowTimestamp(vehicle_rawdata[j])

\* the instant a history entry's timestamp stands for
InstantOf(entry) == DateGetTime(entry.timestamp).n

\* C23: every history of the file-backed store is ordered newest first
\* by timestamp.
C23_HistoryNewestFirst ==
  \A id \in DOMAIN vehicleStore :
    LET h == HistoryOf(vehicleStore[id])
    IN  \A i \in 1..(Len(h) - 1) : InstantOf(h[i]) > InstantOf(h[i + 1])

\* the age of the sample whose timestamp parses, in ms
SampleAge == now - DateGetTime(sample.DeviceDate).n

\* C24: a sample aged exactly 15 minutes gets the status of the
\* operational rules, a sample aged exactly 1440 minutes is Offline, a
\* sample aged more than 1440 minutes is Non-Communicating, and one aged
\* more than 15 and at most 1440 minutes is Offline.
C24_StrictThresholds ==
  (derived # "none" /\ DateGetTime(sample.DeviceDate).t = "number") =>
     /\ SampleAge = OfflineMin * MsPerMin =>
           derived \in {"Online", "Charging", "Running", "Idle", "Off"}
     /\ SampleAge = NonCommMin * MsPerMin => derived = "Offline"
     /\ SampleAge > NonCommMin * MsPerMin => derived = "Non-Communicating"
     /\ (SampleAge > OfflineMin * MsPerMin
           /\ SampleAge <= NonCommMin * MsPerMin) => derived = "Offline"

\* a sample aged exactly 15 minutes, classified by its speed
C24_Witness ==
  /\ derived = "Running"
  /\ SampleAge = OfflineMin * MsPerMin

\* the join key as the specification words it: the first of HWID and
\* hardwareId that is present and not null, as a string, trimmed
JoinKey(r) ==
  TrimStr(StringOf(IF Present(r.HWID) THEN r.HWID
                   ELSE IF Present(r.hardwareId) THEN r.hardwareId
                   ELSE Str("")))

\* the metadata records of metaList whose key is key
MatchesOf(metaList, key) ==
  {m \in DOMAIN metaList : key # "" /\ JoinKey(metaList[m]) = key}

\* the telemetry records of list that have a key, in order
RECURSIVE Keyed(_)
Keyed(list) ==
  IF list = <<>> THEN <<>>
  ELSE (IF JoinKey(Head(list)) = "" THEN <<>> ELSE <<Head(list)>>)
         \o Keyed(Tail(list))

\* row is the VehicleState of telemetry record v joined with metaList
JoinOf(row, v, metaList) ==
  LET key == JoinKey(v)
      ms == MatchesOf(metaList, key)
  IN  /\ row.vehicleId = Str(key)
      /\ ms = {} => /\ row.displayDeviceId = Str(key)
                    /\ row.registrationNo = Str("---")
      /\ ms # {} =>
            \E m \in ms :
              /\ row.displayDeviceId
                   = getVal1(metaList[m], "equipmentCode", Str(key))
              /\ row.registrationNo
                   = getVal1(metaList[m], "vehicleRegNo", Str("---"))

\* C25: the rows a cycle has built are, in order, the VehicleStates of
\* the telemetry records that have a join key, each joined with a
\* metadata record of equal key or, when there is none, carrying its
\* identifier as display code and --- as registration number.
C25_JoinKey ==
  \A pr \in Range(sync) :
    pr.currentRows # <<>> =>
      /\ Len(pr.currentRows) = Len(Keyed(torTele))
      /\ \A k \in DOMAIN pr.currentRows :
            JoinOf(pr.currentRows[k], Keyed(torTele)[k], pr.metaList)

\* H1 joined with the metadata whose key needs trimming, H2 (identified
\* by hardwareId) without metadata although keys h2 and blank exist
C25_Witness ==
  /\ Len(sync) = 1
  /\ sync[1].pc = "insert"
  /\ sync[1].metaList = <<mA, mLower, mNoKey>>
  /\ sync[1].currentRows[1].displayDeviceId = Str("EQ1")
  /\ sync[1].currentRows[2].vehicleId = Str("H2")
  /\ sync[1].currentRows[2].displayDeviceId = Str("H2")
  /\ sync[1].currentRows[2].registrationNo = Str("---")

\* C26: a cycle that starts while a token is cached issues no login
\* request and starts its metadata fetch with that token, and every
\* later page request of the cycle, of the metadata fetch and of the
\* telemetry fetch, carries the token of the request before it.
C26_CachedTokenReused ==
  [][/\ (Len(sync') = Len(sync) + 1 /\ Truthy(authToken)) =>
          /\ sync'[Len(sync')].logins = 0
          /\ sync'[Len(sync')].pc = "fetch"
          /\ sync'[Len(sync')].f.reqToken = authToken
     /\ \A i \in DOMAIN sync :
          (/\ Len(sync') = Len(sync)
           /\ sync[i].logins = 0
           /\ sync[i].pc = "fetch"
           /\ sync'[i].pc = "fetch") =>
            sync'[i].f.reqToken = sync[i].f.reqToken]_vars

\* the identifier a column of strings holds for value x
StoredId(x) == IF Present(x) THEN Str(StringOf(x)) ELSE x

\* C27: the history row and the current-state row a cycle has built
\* for a telemetry record carry the same vehicle identifier.
C27_SameIdentifier ==
  \A pr \in Range(sync) :
    pr.pc = "insert" =>
      /\ Len(pr.rawRows) = Len(pr.currentRows)
      /\ \A k \in DOMAIN pr.rawRows :
            StoredId(pr.rawRows[k].HWID) = pr.currentRows[k].vehicleId

\* invocation i ends in this step
Ends(i) == i \in DOMAIN sync /\ Len(sync') < Len(sync)

\* C28: the history table changes only by the insert of a cycle that has
\* written nothing yet, the current-state table only by the upsert of a
\* cycle whose history insert has succeeded; a cycle whose history
\* insert fails ends without a write and leaves both tables as they
\* were; a cycle awaits the insert only with rows to write, and a cycle
\* that ends at its telemetry fetch has written nothing.
C28_InsertBeforeUpsert ==
  [][/\ vehicle_rawdata' # vehicle_rawdata =>
          \E i \in DOMAIN sync :
            /\ sync[i].pc = "insert"
            /\ sync[i].writes = 0
            /\ vehicle_current' = vehicle_current
     /\ vehicle_current' # vehicle_current =>
          \E i \in DOMAIN sync :
            /\ sync[i].pc = "upsert"
            /\ sync[i].writes = 1
            /\ vehicle_rawdata' = vehicle_rawdata
     /\ \A i \in DOMAIN sync :
          /\ (sync[i].pc = "insert" /\ Ends(i) /\ last'.outcome = "failed") =>
                /\ last'.writes = 0
                /\ vehicle_current' = vehicle_current
                /\ vehicle_rawdata' = vehicle_rawdata
          /\ (sync[i].pc = "fetch" /\ ~Ends(i) /\ sync'[i].pc # "fetch") =>
                /\ sync'[i].pc = "insert"
                /\ Keyed(torTele) # <<>>
                /\ Len(sync'[i].rawRows) = Len(sync'[i].currentRows)
                /\ Len(sync'[i].rawRows) > 0
          /\ (sync[i].pc = "fetch" /\ Ends(i)) =>
                /\ sync[i].f.endpoint = "tele"
                /\ last'.outcome = "completed"
                /\ last'.writes = 0
                /\ vehicle_current' = vehicle_current
                /\ vehicle_rawdata' = vehicle_rawdata]_vars

\* the second cycle's history insert has failed: the tables hold what
\* the first cycle wrote
C28_Witness ==
  /\ ticks = 2
  /\ sync = <<>>
  /\ last.outcome = "failed"
  /\ last.writes = 0
  /\ Len(vehicle_rawdata) = 3
  /\ Cardinality(vehicle_current) = 2

====
